---- MODULE Spec2Model ----
(***************************************************************************)
(* The Select query builder of src/src/query/select.rs as a state machine. *)
(*                                                                         *)
(* One Select<E> value is built by Select::new and then driven by the      *)
(* builder operations of `impl Select<E>`.  The SelectStatement it owns is *)
(* the record `query`; the sea_query calls the builder makes on it         *)
(* (columns, from, join, expr, and_where, add_group_by, order_by_expr,     *)
(* clear_selects) are the operators of the same names.                     *)
(***************************************************************************)
EXTENDS Integers, Sequences, FiniteSets, TLC

\* Longest chain of calls made on one Select.
MaxCalls == 3

(***************************************************************************)
(* Entity descriptors: the inputs of the generic Select<E>.                *)
(*   cake, fruit    the test entities of select.rs / tests_cfg/fruit.rs    *)
(*   cake_filling   the composite-key enumerations shown in the derive      *)
(*                  macros' documentation (sea-orm-macros/src/lib.rs)      *)
(*   keyless        an entity whose PrimaryKey enumeration has no variant, *)
(*                  the shape fruit.rs uses for its Relation enumeration   *)
(*   post           the entity the example application paginates           *)
(*                  (examples/actix_example/src/main.rs); it is not one of *)
(*                  Entities, the roots of the builder chains              *)
(***************************************************************************)
Entities ==
    {"cake::Entity", "fruit::Entity", "cake_filling::Entity", "keyless::Entity"}

\* EntityName::table_name
table_name(E) ==
    CASE E = "cake::Entity" -> "cake"
      [] E = "fruit::Entity" -> "fruit"
      [] E = "cake_filling::Entity" -> "cake_filling"
      [] E = "keyless::Entity" -> "keyless"
      [] E = "post::Entity" -> "post"

\* E::Column::iter(): the columns in declaration order
Columns(E) ==
    CASE E = "cake::Entity" -> <<"id", "name">>
      [] E = "fruit::Entity" -> <<"id", "name", "cake_id">>
      [] E = "cake_filling::Entity" -> <<"cake_id", "filling_id">>
      [] E = "keyless::Entity" -> <<"name", "cake_id">>
      [] E = "post::Entity" -> <<"id", "title", "text">>

\* E::PrimaryKey::iter() followed by into_column(): the key columns in order
PrimaryKey(E) ==
    CASE E = "cake::Entity" -> <<"id">>
      [] E = "fruit::Entity" -> <<"id">>
      [] E = "cake_filling::Entity" -> <<"cake_id", "filling_id">>
      [] E = "keyless::Entity" -> <<>>
      [] E = "post::Entity" -> <<"id">>

\* The variants of E::Relation
Relations(E) ==
    CASE E = "cake::Entity" -> {"Fruit"}
      [] E = "fruit::Entity" -> {}
      [] E = "cake_filling::Entity" -> {"Cake", "CakeExpanded"}
      [] E = "keyless::Entity" -> {"Cake"}
      [] E = "post::Entity" -> {}

\* Identity::Unary(col): the only form of Identity prepare_join matches on
Unary(col) == <<col>>

\* E::Relation::def(&rel): the RelationDef of one relation variant
def(E, rel) ==
    CASE E = "cake::Entity" /\ rel = "Fruit" ->
           [from_tbl |-> "cake", from_col |-> Unary("id"),
            to_tbl |-> "fruit", to_col |-> Unary("cake_id")]
      [] E = "cake_filling::Entity" /\ rel = "Cake" ->
           [from_tbl |-> "cake_filling", from_col |-> Unary("cake_id"),
            to_tbl |-> "cake", to_col |-> Unary("id")]
      [] E = "cake_filling::Entity" /\ rel = "CakeExpanded" ->
           [from_tbl |-> "cake_filling", from_col |-> Unary("cake_id"),
            to_tbl |-> "cake_expanded", to_col |-> Unary("id")]
      [] E = "keyless::Entity" /\ rel = "Cake" ->
           [from_tbl |-> "keyless", from_col |-> Unary("cake_id"),
            to_tbl |-> "cake", to_col |-> Unary("id")]

\* The entities R with `impl Related<E> for R`
RelatedTo(E) ==
    {R \in Entities : \E rel \in Relations(R) : def(R, rel).to_tbl = table_name(E)}

\* <R as Related<E>>::to(): R's relation definition pointing at E
to(R, E) ==
    def(R, CHOOSE rel \in Relations(R) : def(R, rel).to_tbl = table_name(E))

(***************************************************************************)
(* Expressions.                                                            *)
(***************************************************************************)
\* IntoSimpleExpr for a column: SimpleExpr::Column of the table-qualified column
into_simple_expr(E, col) ==
    [op |-> "col", tbl |-> table_name(E), col |-> col, arg |-> <<>>]

\* ColumnTrait::count, as used by the column_as example
count(E, col) ==
    [op |-> "count", tbl |-> table_name(E), col |-> col, arg |-> <<>>]

\* ColumnTrait::eq: table.col = v
eq(E, col, v) ==
    [op |-> "eq", tbl |-> table_name(E), col |-> col, arg |-> <<v>>]

\* Expr::tbl(t1, c1).equals(t2, c2)
tbl_equals(t1, c1, t2, c2) ==
    [l_tbl |-> t1, l_col |-> c1, r_tbl |-> t2, r_col |-> c2]

\* ModelTrait::get
get(model, col) == model[col]

(***************************************************************************)
(* SelectStatement and the calls the builder makes on it.                  *)
(***************************************************************************)
SelectStatement_new ==
    [selects |-> <<>>, from |-> <<>>, join |-> <<>>,
     wherei |-> <<>>, groups |-> <<>>, orders |-> <<>>,
     limit |-> <<>>, offset |-> <<>>]

\* SelectStatement::expr: push one SelectExpr
expr(q, e, alias) ==
    [q EXCEPT !.selects = Append(@, [expr |-> e, alias |-> alias])]

\* SelectStatement::columns: push every column, unaliased, in the given order
columns(q, cols) ==
    [q EXCEPT !.selects = @ \o [i \in 1..Len(cols) |->
        [expr |-> [op |-> "col", tbl |-> cols[i][1], col |-> cols[i][2],
                   arg |-> <<>>],
         alias |-> <<>>]]]

\* SelectStatement::from
from(q, tbl) == [q EXCEPT !.from = Append(@, tbl)]

\* SelectStatement::join
join(q, kind, tbl, condition) ==
    [q EXCEPT !.join = Append(@, [kind |-> kind, tbl |-> tbl, on |-> condition])]

\* SelectStatement::clear_selects
clear_selects(q) == [q EXCEPT !.selects = <<>>]

\* and_where that overwrites the condition instead of conjoining to it
and_where_replace(q, e) == [q EXCEPT !.wherei = <<e>>]

\* SelectStatement::and_where
and_where(q, e) == [q EXCEPT !.wherei = Append(@, e)]

\* SelectStatement::add_group_by
add_group_by(q, es) == [q EXCEPT !.groups = @ \o es]

\* order_by_expr that puts the new key in front of the earlier ones
order_by_expr_front(q, e, ord) ==
    [q EXCEPT !.orders = <<[expr |-> e, order |-> ord]>> \o @]

\* SelectStatement::order_by_expr
order_by_expr(q, e, ord) ==
    [q EXCEPT !.orders = Append(@, [expr |-> e, order |-> ord])]

(***************************************************************************)
(* impl Select<E>: the private helpers.                                    *)
(***************************************************************************)
\* column_list that enumerates the columns last to first
column_list_reversed(E) ==
    [i \in 1..Len(Columns(E)) |->
        <<table_name(E), Columns(E)[Len(Columns(E)) + 1 - i]>>]

\* Select::column_list
column_list(E) ==
    [i \in 1..Len(Columns(E)) |-> <<table_name(E), Columns(E)[i]>>]

\* Select::prepare_select
prepare_select(q, E) == columns(q, column_list(E))

\* Select::prepare_from
prepare_from(q, E) == from(q, table_name(E))

\* Select::new
new(E) == prepare_from(prepare_select(SelectStatement_new, E), E)

\* prepare_join that pairs the key columns with the wrong tables
prepare_join_swapped(q, E, kind, rel) ==
    join(q, kind, rel.to_tbl,
         tbl_equals(table_name(E), rel.to_col[1], rel.to_tbl, rel.from_col[1]))

\* Select::prepare_join
prepare_join(q, E, kind, rel) ==
    LET own_tbl == table_name(E)
        to_tbl == rel.to_tbl
        owner_keys == rel.from_col
        foreign_keys == rel.to_col
        condition ==
            CASE Len(owner_keys) = 1 /\ Len(foreign_keys) = 1 ->
                tbl_equals(own_tbl, owner_keys[1], to_tbl, foreign_keys[1])
    IN  join(q, kind, to_tbl, condition)

\* prepare_reverse_join that joins the relation's target table, as prepare_join does
prepare_reverse_join_to(q, rel) ==
    join(q, "InnerJoin", rel.to_tbl,
         tbl_equals(rel.from_tbl, rel.from_col[1], rel.to_tbl, rel.to_col[1]))

\* Select::prepare_reverse_join
prepare_reverse_join(q, rel) ==
    LET from_tbl == rel.from_tbl
        to_tbl == rel.to_tbl
        owner_keys == rel.from_col
        foreign_keys == rel.to_col
        condition ==
            CASE Len(owner_keys) = 1 /\ Len(foreign_keys) = 1 ->
                tbl_equals(from_tbl, owner_keys[1], to_tbl, foreign_keys[1])
    IN  join(q, "InnerJoin", from_tbl, condition)

(***************************************************************************)
(* impl Select<E>: the public operations, as functions of the statement.   *)
(***************************************************************************)
\* select_only that leaves the default projection in place
select_only_keep(q) == q

\* Select::select_only
select_only(q) == clear_selects(q)

\* Select::column
column(q, e) == expr(q, e, <<>>)

\* Select::column_as: alias: Some(Rc::new(Alias::new(alias)))
column_as(q, e, alias) == expr(q, e, <<alias>>)

\* Select::filter
filter(q, e) == and_where(q, e)

\* Iterator::next on R::PrimaryKey::iter(): the first key column, if any
next(keys) == IF Len(keys) > 0 THEN <<keys[1]>> ELSE <<>>

\* belongs_to that reads the model's last field instead of its key field
belongs_to_wrong_field(q, R, model) ==
    LET key == next(PrimaryKey(R))
    IN  IF key # <<>>
        THEN [fault |-> "none",
              query |-> and_where(q,
                  eq(R, key[1], get(model, Columns(R)[Len(Columns(R))])))]
        ELSE [fault |-> "undefined primary key", query |-> q]

\* Select::belongs_to: the new statement, or the panic
belongs_to(q, R, model) ==
    LET key == next(PrimaryKey(R))
    IN  IF key # <<>>
        THEN [fault |-> "none",
              query |-> filter(q, eq(R, key[1], get(model, key[1])))]
        ELSE [fault |-> "undefined primary key", query |-> q]

\* group_by that also sorts by the grouping expression
group_by_ordering(q, e) == order_by_expr(add_group_by(q, <<e>>), e, "Asc")

\* Select::group_by
group_by(q, e) == add_group_by(q, <<e>>)

\* Select::order_by
order_by(q, e) == order_by_expr(q, e, "Asc")

\* Select::order_by_desc
order_by_desc(q, e) == order_by_expr(q, e, "Desc")

\* Select::left_join
left_join(q, E, rel) == prepare_join(q, E, "LeftJoin", def(E, rel))

\* Select::right_join
right_join(q, E, rel) == prepare_join(q, E, "RightJoin", def(E, rel))

\* Select::inner_join
inner_join(q, E, rel) == prepare_join(q, E, "InnerJoin", def(E, rel))

\* Select::reverse_join
reverse_join(q, R, E) == prepare_reverse_join(q, to(R, E))

\* Select::as_query
as_query(q) == q

\* Select::build: the statement the backend renders from the clauses
build(q, builder) == [builder |-> builder, query |-> as_query(q)]

(***************************************************************************)
(* Inputs of the calls.                                                    *)
(***************************************************************************)
\* The value of the filter example, cake::Column::Id.eq(5)
FilterVal == 5

\* The key values of the models of tests join_4 and join_5
ModelVal1 == 11
ModelVal2 == 12

FilterExprs(E) ==
    {eq(E, Columns(E)[1], FilterVal), eq(E, Columns(E)[2], FilterVal)}

OrderExprs(E) ==
    {into_simple_expr(E, Columns(E)[1]), into_simple_expr(E, Columns(E)[2])}

GroupExprs(E) == {into_simple_expr(E, Columns(E)[2])}

ColumnExprs(E) == {into_simple_expr(E, Columns(E)[2]), count(E, Columns(E)[1])}

Aliases == {"count"}

Backends == {"MysqlQueryBuilder"}

\* Models of R whose first two fields differ
Models(R) ==
    LET cols == {Columns(R)[i] : i \in 1..Len(Columns(R))}
    IN  {m \in [cols -> {ModelVal1, ModelVal2}] :
            m[Columns(R)[1]] # m[Columns(R)[2]]}

(***************************************************************************)
(* State.                                                                  *)
(*   entity  the E of the Select<E>                                        *)
(*   query   Select::query, the statement in progress                      *)
(*   alive   the Select value exists (it has been neither moved out by     *)
(*           into_query nor dropped by a panic)                            *)
(*   calls   the calls made on the Select so far, in order                 *)
(*   stmt    what the last build / into_query returned, if any             *)
(*   fault   the panic message, once a call has panicked                   *)
(*   pg      the Paginator wrapped around the Select and the table it is   *)
(*           run against, once there is one                                *)
(*   twin    a second Select built on the same descriptors, once there is  *)
(*           one                                                           *)
(***************************************************************************)
VARIABLES entity, query, alive, calls, stmt, fault, pg, twin

vars == <<entity, query, alive, calls, stmt, fault, pg, twin>>

\* No Paginator has been made of the Select
NoPaginator == [state |-> "none"]

\* No second Select has been made
NoTwin == [state |-> "none"]

Call(op, arg) == [op |-> op, arg |-> arg]

\* E::find(): Select::new
Init ==
    /\ entity \in Entities
    /\ query = new(entity)
    /\ alive = TRUE
    /\ calls = <<>>
    /\ stmt = <<>>
    /\ fault = "none"
    /\ pg = NoPaginator
    /\ twin = NoTwin

CanCall == alive /\ Len(calls) < MaxCalls

\* A call that consumes self and returns the Select with statement q
Chain(op, arg, q) ==
    /\ query' = q
    /\ calls' = Append(calls, Call(op, arg))
    /\ UNCHANGED <<entity, alive, stmt, fault, pg, twin>>

SelectOnly ==
    /\ CanCall
    /\ Chain("select_only", <<>>, select_only(query))

Column ==
    /\ CanCall
    /\ \E e \in ColumnExprs(entity) : Chain("column", <<e>>, column(query, e))

ColumnAs ==
    /\ CanCall
    /\ \E e \in ColumnExprs(entity), a \in Aliases :
          Chain("column_as", <<e, a>>, column_as(query, e, a))

Filter ==
    /\ CanCall
    /\ \E e \in FilterExprs(entity) : Chain("filter", <<e>>, filter(query, e))

BelongsTo ==
    /\ CanCall
    /\ \E R \in RelatedTo(entity) : \E model \in Models(R) :
          LET r == belongs_to(query, R, model)
          IN  /\ query' = r.query
              /\ fault' = r.fault
              /\ alive' = (r.fault = "none")
              /\ calls' = Append(calls, Call("belongs_to", <<R, model>>))
              /\ UNCHANGED <<entity, stmt, pg, twin>>

GroupBy ==
    /\ CanCall
    /\ \E e \in GroupExprs(entity) : Chain("group_by", <<e>>, group_by(query, e))

OrderBy ==
    /\ CanCall
    /\ \E e \in OrderExprs(entity) : Chain("order_by", <<e>>, order_by(query, e))

OrderByDesc ==
    /\ CanCall
    /\ \E e \in OrderExprs(entity) :
          Chain("order_by_desc", <<e>>, order_by_desc(query, e))

LeftJoin ==
    /\ CanCall
    /\ \E rel \in Relations(entity) :
          Chain("left_join", <<rel>>, left_join(query, entity, rel))

RightJoin ==
    /\ CanCall
    /\ \E rel \in Relations(entity) :
          Chain("right_join", <<rel>>, right_join(query, entity, rel))

InnerJoin ==
    /\ CanCall
    /\ \E rel \in Relations(entity) :
          Chain("inner_join", <<rel>>, inner_join(query, entity, rel))

ReverseJoin ==
    /\ CanCall
    /\ \E R \in RelatedTo(entity) :
          Chain("reverse_join", <<R>>, reverse_join(query, R, entity))

\* Select::build takes &self: the Select stays with the caller
Build ==
    /\ CanCall
    /\ \E b \in Backends :
          /\ stmt' = <<build(query, b)>>
          /\ calls' = Append(calls, Call("build", <<b>>))
    /\ UNCHANGED <<entity, query, alive, fault, pg, twin>>

\* into_query that only borrows the Select
IntoQueryBorrowed ==
    /\ alive /\ Len(calls) < MaxCalls
    /\ stmt' = <<query>>
    /\ calls' = Append(calls, [op |-> "into_query", arg |-> <<>>])
    /\ UNCHANGED <<entity, query, alive, fault, pg, twin>>

\* Select::into_query takes self: the statement is moved out of the Select
IntoQuery ==
    /\ CanCall
    /\ stmt' = <<query>>
    /\ alive' = FALSE
    /\ calls' = Append(calls, Call("into_query", <<>>))
    /\ UNCHANGED <<entity, query, fault, pg, twin>>

Next ==
    \/ SelectOnly
    \/ Column
    \/ ColumnAs
    \/ Filter
    \/ BelongsTo
    \/ GroupBy
    \/ OrderBy
    \/ OrderByDesc
    \/ LeftJoin
    \/ RightJoin
    \/ InnerJoin
    \/ ReverseJoin
    \/ Build
    \/ IntoQuery

Spec == Init /\ [][Next]_vars

(***************************************************************************)
(* Pagination: the Paginator the example application wraps around          *)
(* Post::find(), and the table the statements are run against.             *)
(***************************************************************************)
\* Most rows the table holds.
MaxRows == 10

\* Largest page size a request asks for.
MaxPageSize == 3

\* Largest page number a request asks for.
MaxPage == 4

\* const DEFAULT_POSTS_PER_PAGE
DEFAULT_POSTS_PER_PAGE == 25

\* Option::unwrap_or
unwrap_or(opt, default) == IF opt = <<>> THEN default ELSE opt[1]

\* The request's Params { page, posts_per_page }: each absent or a number
ParamsPostsPerPage == {<<>>} \cup {<<n>> : n \in 0..MaxPageSize}

ParamsPage == {<<>>} \cup {<<n>> : n \in 0..MaxPage}

\* The Selects a Paginator is made of: Post::find(), and Post::find() with an
\* ordering, a filter on the key, a narrowed projection
WrappedQueries ==
    LET find == new("post::Entity")
        id == into_simple_expr("post::Entity", "id")
    IN  {find,
         order_by_desc(find, id),
         filter(find, eq("post::Entity", "id", FilterVal)),
         column(select_only(find), id)}

\* SelectStatement::limit
limit(q, n) == [q EXCEPT !.limit = <<n>>]

\* SelectStatement::offset
offset(q, n) == [q EXCEPT !.offset = <<n>>]

\* The database: a table of T rows with keys 1..T.  The rows a statement
\* returns are those every WHERE predicate (an equality on the key) holds
\* of, in key order (descending if ORDER BY says so), from OFFSET on, at most
\* LIMIT of them.
Reverse(rows) == [i \in 1..Len(rows) |-> rows[Len(rows) + 1 - i]]

Matches(q, i) == \A k \in 1..Len(q.wherei) : q.wherei[k].arg = <<i>>

execute(T, q) ==
    LET matchesQ(i) == Matches(q, i)
        matched == SelectSeq([i \in 1..T |-> i], matchesQ)
        ordered == IF Len(q.orders) > 0 /\ q.orders[1].order = "Desc"
                   THEN Reverse(matched) ELSE matched
        first == unwrap_or(q.offset, 0) + 1
        last == IF q.limit = <<>> THEN Len(ordered)
                ELSE IF first + q.limit[1] - 1 < Len(ordered)
                     THEN first + q.limit[1] - 1 ELSE Len(ordered)
    IN  SubSeq(ordered, first, last)

\* paginate that takes any page size
paginate_unchecked(q, page_size) ==
    [fault |-> "none", paginator |-> <<[query |-> q, page_size |-> page_size]>>]

\* paginate(query, page_size): a page size of 0 is rejected at the call
paginate(q, page_size) ==
    IF page_size = 0
    THEN [fault |-> "page_size is zero", paginator |-> <<>>]
    ELSE [fault |-> "none",
          paginator |-> <<[query |-> q, page_size |-> page_size]>>]

\* The count query of num_pages: same FROM / JOIN / WHERE, no projection, order
\* or limit
count_query(q) ==
    [q EXCEPT !.selects = <<>>, !.orders = <<>>, !.limit = <<>>,
              !.offset = <<>>]

\* num_pages that rounds down
num_pages_floor(T, p) ==
    IF p.page_size = 0
    THEN [fault |-> "attempt to divide by zero", pages |-> <<>>]
    ELSE [fault |-> "none",
          pages |-> <<Len(execute(T, count_query(p.query))) \div p.page_size>>]

\* Paginator::num_pages: ceil(total_rows / page_size); an integer division by
\* zero is a panic
num_pages(T, p) ==
    LET num_items == Len(execute(T, count_query(p.query)))
    IN  IF p.page_size = 0
        THEN [fault |-> "attempt to divide by zero", pages |-> <<>>]
        ELSE [fault |-> "none",
              pages |-> <<(num_items \div p.page_size)
                          + (IF num_items % p.page_size > 0 THEN 1 ELSE 0)>>]

\* fetch_page that pages the wrapped query itself
fetch_page_in_place(T, p, page) ==
    LET q == offset(limit(p.query, p.page_size), page * p.page_size)
    IN  [paginator |-> [p EXCEPT !.query = q], rows |-> execute(T, q)]

\* Paginator::fetch_page: OFFSET page * page_size and LIMIT page_size on a copy
\* of the wrapped query
fetch_page(T, p, page) ==
    LET q == offset(limit(p.query, p.page_size), page * p.page_size)
    IN  [paginator |-> p, rows |-> execute(T, q)]

\* A request for the list of posts has arrived; the table holds T rows
Request(T) ==
    [state |-> "request", table |-> T, size |-> <<>>, paginator |-> <<>>,
     pages |-> <<>>, page |-> <<>>, prev |-> <<>>, fetched |-> <<>>]

InitPage ==
    /\ entity = "post::Entity"
    /\ query \in WrappedQueries
    /\ alive = TRUE
    /\ calls = <<>>
    /\ stmt = <<>>
    /\ fault = "none"
    /\ pg \in {Request(T) : T \in 0..MaxRows}
    /\ twin = NoTwin

\* list: posts_per_page = params.posts_per_page.unwrap_or(..);
\*       paginator = Post::find().paginate(&conn, posts_per_page)
Paginate ==
    /\ pg.state = "request"
    /\ \E param \in ParamsPostsPerPage :
          LET posts_per_page == unwrap_or(param, DEFAULT_POSTS_PER_PAGE)
              r == paginate(query, posts_per_page)
          IN  /\ pg' = [pg EXCEPT !.state = IF r.fault = "none" THEN "ready"
                                            ELSE "panicked",
                                  !.size = <<posts_per_page>>,
                                  !.paginator = r.paginator]
              /\ fault' = r.fault
    /\ UNCHANGED <<entity, query, alive, calls, stmt, twin>>

\* list: num_pages = paginator.num_pages().await.ok().unwrap()
NumPages ==
    /\ pg.state = "ready"
    /\ LET r == num_pages(pg.table, pg.paginator[1])
       IN  /\ pg' = [pg EXCEPT !.state = IF r.fault = "none" THEN "ready"
                                         ELSE "panicked",
                               !.pages = r.pages]
           /\ fault' = r.fault
    /\ UNCHANGED <<entity, query, alive, calls, stmt, twin>>

\* list: page = params.page.unwrap_or(0);
\*       posts = paginator.fetch_page(page).await.expect(..)
FetchPage ==
    /\ pg.state = "ready"
    /\ \E param \in ParamsPage :
          LET page == unwrap_or(param, 0)
              r == fetch_page(pg.table, pg.paginator[1], page)
          IN  pg' = [pg EXCEPT !.paginator = <<r.paginator>>,
                               !.prev = pg.page,
                               !.page = <<page>>,
                               !.fetched = <<r.rows>>]
    /\ UNCHANGED <<entity, query, alive, calls, stmt, fault, twin>>

NextPage ==
    \/ Paginate
    \/ NumPages
    \/ FetchPage

SpecPage == InitPage /\ [][NextPage]_vars

(***************************************************************************)
(* Two Selects on the same descriptors: the Select of the state above and  *)
(* `twin`, either built by its own find() or cloned from the first, their  *)
(* calls interleaved in every order.                                       *)
(***************************************************************************)
\* Longest chain of calls on each of the two Selects.
MaxParCalls == 2

ParEntities == {"cake::Entity", "fruit::Entity"}

ParOps == {"filter", "order_by", "select_only", "column", "left_join"}

\* The argument lists a call of op on a Select<E> is made with
ParArgs(E, op) ==
    CASE op = "filter" -> {<<e>> : e \in FilterExprs(E)}
      [] op = "order_by" -> {<<e>> : e \in GroupExprs(E)}
      [] op = "select_only" -> {<<>>}
      [] op = "column" -> {<<e>> : e \in GroupExprs(E)}
      [] op = "left_join" -> {<<rel>> : rel \in Relations(E)}

\* The statement of a Select<E> with statement q after the call c
Apply(q, E, c) ==
    CASE c.op = "filter" -> filter(q, c.arg[1])
      [] c.op = "order_by" -> order_by(q, c.arg[1])
      [] c.op = "select_only" -> select_only(q)
      [] c.op = "column" -> column(q, c.arg[1])
      [] c.op = "left_join" -> left_join(q, E, c.arg[1])

InitPar ==
    /\ entity \in ParEntities
    /\ query = new(entity)
    /\ alive = TRUE
    /\ calls = <<>>
    /\ stmt = <<>>
    /\ fault = "none"
    /\ pg = NoPaginator
    /\ twin = NoTwin

\* A second chain starts: E2::find()
FindTwin ==
    /\ twin.state = "none"
    /\ \E E2 \in ParEntities :
          twin' = [state |-> "live", origin |-> "find", entity |-> E2,
                   query |-> new(E2), calls |-> <<>>]
    /\ UNCHANGED <<entity, query, alive, calls, stmt, fault, pg>>

\* #[derive(Clone)] on Select: the clone owns a copy of the statement
CloneTwin ==
    /\ twin.state = "none"
    /\ twin' = [state |-> "live", origin |-> "clone", entity |-> entity,
                query |-> query, calls |-> calls]
    /\ UNCHANGED <<entity, query, alive, calls, stmt, fault, pg>>

\* A call on the first Select
StepFirst ==
    /\ Len(calls) < MaxParCalls
    /\ \E op \in ParOps : \E a \in ParArgs(entity, op) :
          /\ query' = Apply(query, entity, Call(op, a))
          /\ calls' = Append(calls, Call(op, a))
    /\ UNCHANGED <<entity, alive, stmt, fault, pg, twin>>

\* A call on the second Select that also lands in the first Select's statement
StepTwinShared ==
    /\ twin.state = "live"
    /\ Len(twin.calls) < MaxParCalls
    /\ \E op \in ParOps : \E a \in ParArgs(twin.entity, op) :
          /\ twin' = [twin EXCEPT
                        !.query = Apply(twin.query, twin.entity, Call(op, a)),
                        !.calls = Append(twin.calls, Call(op, a))]
          /\ query' = IF twin.origin = "clone"
                      THEN Apply(twin.query, twin.entity, Call(op, a))
                      ELSE query
    /\ UNCHANGED <<entity, alive, calls, stmt, fault, pg>>

\* A call on the second Select
StepTwin ==
    /\ twin.state = "live"
    /\ Len(twin.calls) < MaxParCalls
    /\ \E op \in ParOps : \E a \in ParArgs(twin.entity, op) :
          twin' = [twin EXCEPT
                     !.query = Apply(twin.query, twin.entity, Call(op, a)),
                     !.calls = Append(twin.calls, Call(op, a))]
    /\ UNCHANGED <<entity, query, alive, calls, stmt, fault, pg>>

NextPar ==
    \/ FindTwin
    \/ CloneTwin
    \/ StepFirst
    \/ StepTwin

SpecPar == InitPar /\ [][NextPar]_vars

(***************************************************************************)
(* What the statement should hold, read off the calls made.                *)
(***************************************************************************)
Last(s) == s[Len(s)]

Front(s) == SubSeq(s, 1, Len(s) - 1)

Ops(cs) == [i \in 1..Len(cs) |-> cs[i].op]

\* The predicate belongs_to::<R>(model) hands to filter: R's table, R's first
\* key column, the model's value of that column
KeyPredicate(R, model) ==
    [op |-> "eq", tbl |-> table_name(R), col |-> PrimaryKey(R)[1],
     arg |-> <<model[PrimaryKey(R)[1]]>>]

\* The expressions passed to filter, directly or by belongs_to, in call order
RECURSIVE FilteredBy(_)
FilteredBy(cs) ==
    IF Len(cs) = 0 THEN <<>>
    ELSE LET c == Last(cs)
             rest == FilteredBy(Front(cs))
         IN  IF c.op = "filter" THEN Append(rest, c.arg[1])
             ELSE IF c.op = "belongs_to" /\ Len(PrimaryKey(c.arg[1])) > 0
                  THEN Append(rest, KeyPredicate(c.arg[1], c.arg[2]))
                  ELSE rest

\* The ORDER BY keys asked for, in call order
RECURSIVE OrderedBy(_)
OrderedBy(cs) ==
    IF Len(cs) = 0 THEN <<>>
    ELSE LET c == Last(cs)
             rest == OrderedBy(Front(cs))
         IN  IF c.op = "order_by"
             THEN Append(rest, [expr |-> c.arg[1], order |-> "Asc"])
             ELSE IF c.op = "order_by_desc"
                  THEN Append(rest, [expr |-> c.arg[1], order |-> "Desc"])
                  ELSE rest

\* The expressions added by column / column_as, in call order
RECURSIVE AddedColumns(_)
AddedColumns(cs) ==
    IF Len(cs) = 0 THEN <<>>
    ELSE LET c == Last(cs)
             rest == AddedColumns(Front(cs))
         IN  IF c.op = "column"
             THEN Append(rest, [expr |-> c.arg[1], alias |-> <<>>])
             ELSE IF c.op = "column_as"
                  THEN Append(rest, [expr |-> c.arg[1], alias |-> <<c.arg[2]>>])
                  ELSE rest

JoinOps == {"left_join", "right_join", "inner_join", "reverse_join"}

IsJoinCall(c) == c.op \in JoinOps

JoinCalls == SelectSeq(calls, IsJoinCall)

JoinKind(op) ==
    CASE op = "left_join" -> "LeftJoin"
      [] op = "right_join" -> "RightJoin"
      [] op = "inner_join" -> "InnerJoin"

\* The positions of the select_only calls
SelectOnlyAt == {i \in 1..Len(calls) : calls[i].op = "select_only"}

LastSelectOnly == CHOOSE k \in SelectOnlyAt : \A j \in SelectOnlyAt : j <= k

(***************************************************************************)
(* Claims.                                                                 *)
(***************************************************************************)

\* C1: a Select fresh from Select::new (find), with no further call, projects
\* exactly E's declared columns, each qualified by E's table, in declaration
\* order, and its FROM clause is exactly E's table.
C1_DefaultProjection ==
    calls = <<>> =>
        /\ Len(query.selects) = Len(Columns(entity))
        /\ \A i \in 1..Len(query.selects) :
              query.selects[i] =
                  [expr |-> [op |-> "col", tbl |-> table_name(entity),
                             col |-> Columns(entity)[i], arg |-> <<>>],
                   alias |-> <<>>]
        /\ query.from = <<table_name(entity)>>
        /\ (entity = "cake::Entity" =>
               /\ [i \in 1..Len(query.selects) |-> query.selects[i].expr.col]
                      = <<"id", "name">>
               /\ query.from = <<"cake">>)
        /\ (entity = "fruit::Entity" =>
               /\ [i \in 1..Len(query.selects) |-> query.selects[i].expr.col]
                      = <<"id", "name", "cake_id">>
               /\ query.from = <<"fruit">>)

C1_Witness ==
    /\ calls = <<>>
    /\ entity = "fruit::Entity"
    /\ Len(query.selects) = Len(<<"id", "name", "cake_id">>)
    /\ Last(query.selects).expr.tbl = "fruit"
    /\ Last(query.selects).expr.col = "cake_id"

\* C2: after any sequence of calls, WHERE is the conjunction of exactly the
\* expressions passed to filter, in the order of the calls; a later filter
\* neither replaces nor reorders an earlier one.
C2_WhereAccumulates == query.wherei = FilteredBy(calls)

C2_Witness ==
    /\ Ops(calls) = <<"filter", "filter">>
    /\ calls[1].arg # calls[2].arg
    /\ query.wherei = <<calls[1].arg[1], calls[2].arg[1]>>

\* C3: each left_join / right_join / inner_join with a relation of the root
\* entity appends, after the JOIN clauses already present, one JOIN clause of
\* the requested kind on the relation's target table, with the ON condition
\* E_table.from_col = target_table.to_col; JOIN clauses are in call order.
C3_JoinsInCallOrder ==
    /\ Len(query.join) = Len(JoinCalls)
    /\ \A i \in 1..Len(JoinCalls) :
          JoinCalls[i].op # "reverse_join" =>
              LET d == def(entity, JoinCalls[i].arg[1])
              IN  query.join[i] =
                      [kind |-> JoinKind(JoinCalls[i].op),
                       tbl |-> d.to_tbl,
                       on |-> [l_tbl |-> table_name(entity),
                               l_col |-> d.from_col[1],
                               r_tbl |-> d.to_tbl,
                               r_col |-> d.to_col[1]]]

C3_Witness ==
    /\ entity = "cake::Entity"
    /\ Ops(calls) = <<"left_join", "inner_join">>
    /\ query.join =
          <<[kind |-> "LeftJoin", tbl |-> "fruit",
             on |-> [l_tbl |-> "cake", l_col |-> "id",
                     r_tbl |-> "fruit", r_col |-> "cake_id"]],
            [kind |-> "InnerJoin", tbl |-> "fruit",
             on |-> [l_tbl |-> "cake", l_col |-> "id",
                     r_tbl |-> "fruit", r_col |-> "cake_id"]]>>

\* C5: after any sequence of calls, ORDER BY is exactly the expressions passed
\* to order_by (ascending) and order_by_desc (descending), in call order.
C5_OrderByInCallOrder == query.orders = OrderedBy(calls)

C5_Witness ==
    /\ Ops(calls) = <<"order_by", "order_by_desc">>
    /\ calls[1].arg # calls[2].arg
    /\ query.orders = <<[expr |-> calls[1].arg[1], order |-> "Asc"],
                        [expr |-> calls[2].arg[1], order |-> "Desc"]>>

\* C6: once select_only has been called, the projection holds exactly the
\* expressions added by the column / column_as calls made after it, in call
\* order and with their aliases (empty right after select_only); two column_as
\* calls with the same alias both appear.
C6_SelectOnlyProjection ==
    SelectOnlyAt # {} =>
        query.selects =
            AddedColumns(SubSeq(calls, LastSelectOnly + 1, Len(calls)))

C6_Witness ==
    /\ Ops(calls) = <<"select_only", "column_as", "column_as">>
    /\ calls[2].arg[1] # calls[3].arg[1]
    /\ calls[2].arg[2] = calls[3].arg[2]
    /\ query.selects = <<[expr |-> calls[2].arg[1], alias |-> <<"count">>],
                         [expr |-> calls[3].arg[1], alias |-> <<"count">>]>>

\* The last call is belongs_to::<R>(model)
LastIsBelongsTo == Len(calls) > 0 /\ Last(calls).op = "belongs_to"

\* C7, as claimed: belongs_to::<R>(model), R with a single-column primary key
\* of value v in model, appends to WHERE the predicate owner.fk = v, on the
\* query's own join-key column (the column of E that R's relation points at).
C7_OwnColumn ==
    (LastIsBelongsTo /\ Len(PrimaryKey(Last(calls).arg[1])) = 1) =>
        LET R == Last(calls).arg[1]
            model == Last(calls).arg[2]
        IN  /\ Len(query.wherei) > 0
            /\ Last(query.wherei) =
                   [op |-> "eq", tbl |-> table_name(entity),
                    col |-> to(R, entity).to_col[1],
                    arg |-> <<model[PrimaryKey(R)[1]]>>]

\* C7, amended: belongs_to::<R>(model), R with a single-column primary key of
\* value v in model, appends to WHERE the predicate R_table.pk = v, on the
\* related entity's primary-key column (WHERE `cake`.`id` = 11 on a Select
\* over fruit), and leaves the predicates already there in place.
C7_RelatedKeyColumn ==
    (LastIsBelongsTo /\ Len(PrimaryKey(Last(calls).arg[1])) = 1) =>
        LET R == Last(calls).arg[1]
            model == Last(calls).arg[2]
        IN  /\ fault = "none"
            /\ query.wherei =
                   Append(FilteredBy(Front(calls)),
                          [op |-> "eq", tbl |-> table_name(R),
                           col |-> PrimaryKey(R)[1],
                           arg |-> <<model[PrimaryKey(R)[1]]>>])

C7_Witness ==
    /\ entity = "fruit::Entity"
    /\ Ops(calls) = <<"belongs_to">>
    /\ Last(calls).arg[1] = "cake::Entity"
    /\ Last(calls).arg[2]["id"] = ModelVal1
    /\ query.wherei =
          <<[op |-> "eq", tbl |-> "cake", col |-> "id", arg |-> <<ModelVal1>>]>>

\* C8: belongs_to::<R>(model) is a hard fault, and adds no predicate to WHERE,
\* whenever R's primary key is not exactly one column: both when R declares no
\* primary-key column and when it declares two or more.
C8_FaultUnlessSingleKey ==
    (LastIsBelongsTo /\ Len(PrimaryKey(Last(calls).arg[1])) # 1) =>
        /\ fault # "none"
        /\ ~alive
        /\ query.wherei = FilteredBy(Front(calls))

\* C9: reverse_join::<R>(), R declaring the unary relation (R's table,
\* from_col, E's table, to_col) to E, appends exactly one INNER JOIN clause on
\* R's table with the ON condition R_table.from_col = E_table.to_col, and
\* leaves the projection and the FROM clause (E's table) as they were.
C9_Step ==
    (/\ Len(calls') = Len(calls) + 1
     /\ Last(calls').op = "reverse_join"
     /\ to(Last(calls').arg[1], entity).from_tbl = table_name(Last(calls').arg[1])
     /\ to(Last(calls').arg[1], entity).to_tbl = table_name(entity)) =>
        LET R == Last(calls').arg[1]
            d == to(R, entity)
        IN  /\ query'.join =
                   Append(query.join,
                          [kind |-> "InnerJoin",
                           tbl |-> table_name(R),
                           on |-> [l_tbl |-> table_name(R),
                                   l_col |-> d.from_col[1],
                                   r_tbl |-> table_name(entity),
                                   r_col |-> d.to_col[1]]])
            /\ query'.selects = query.selects
            /\ query'.from = query.from
            /\ query'.from = <<table_name(entity)>>

C9_ReverseJoin == [][C9_Step]_vars

C9_Witness ==
    /\ entity = "fruit::Entity"
    /\ Ops(calls) = <<"reverse_join">>
    /\ Last(calls).arg[1] = "cake::Entity"
    /\ query.join =
          <<[kind |-> "InnerJoin", tbl |-> "cake",
             on |-> [l_tbl |-> "cake", l_col |-> "id",
                     r_tbl |-> "fruit", r_col |-> "cake_id"]]>>
    /\ query.from = <<"fruit">>
    /\ Len(query.selects) = Len(Columns("fruit::Entity"))

\* C10, as claimed: once build or into_query has produced the statement, the
\* Select no longer exists: nothing is called on it afterwards and it is not
\* finalized a second time.
C10_ConsumedByAnyFinalization ==
    \A i \in 1..Len(calls) :
        calls[i].op \in {"build", "into_query"} =>
            (i = Len(calls) /\ ~alive)

\* C10, amended: a Select is consumed when into_query moves the statement out
\* of it: into_query is the last call made on it and the Select no longer
\* exists afterwards.  build only borrows the Select: after build has produced
\* the statement the Select still exists, holding the statement's clauses, and
\* can be extended and built again.
C10_ConsumedByIntoQuery ==
    /\ \A i \in 1..Len(calls) :
          calls[i].op = "into_query" =>
              (i = Len(calls) /\ ~alive /\ stmt = <<query>>)
    /\ (Len(calls) > 0 /\ Last(calls).op = "build") =>
          (alive /\ Len(stmt) = 1 /\ stmt[1].query = query)
    /\ alive <=> (fault = "none" /\ \A i \in 1..Len(calls) :
                                      calls[i].op # "into_query")

C10_Witness ==
    /\ Ops(calls) = <<"build", "filter", "into_query">>
    /\ ~alive
    /\ stmt = <<query>>
    /\ Len(query.wherei) = 1

(***************************************************************************)
(* Pagination claims, under SpecPage.                                      *)
(***************************************************************************)
\* The rows of the table the Select's WHERE holds of: the total row count T
TotalRows ==
    Cardinality({i \in 1..pg.table :
        \A k \in 1..Len(query.wherei) : query.wherei[k].arg = <<i>>})

\* ceil(T / P): the least r with r * P >= T
CeilDiv(T, P) ==
    CHOOSE r \in 0..T : r * P >= T /\ \A s \in 0..T : s * P >= T => r <= s

Min(a, b) == IF a < b THEN a ELSE b

Max(a, b) == IF a > b THEN a ELSE b

\* C11: for every total row count T >= 0 and page size P >= 1, num_pages()
\* returns ceil(T / P): 0 when T = 0, 4 when T = 10 and P = 3; T is counted
\* over the wrapped query's FROM / JOIN / WHERE, whatever its projection and
\* ordering.
C11_NumPagesIsCeiling ==
    (pg.state # "none" /\ pg.pages # <<>>) =>
        LET P == pg.size[1]
            r == pg.pages[1]
        IN  /\ P >= 1
            /\ r = CeilDiv(TotalRows, P)
            /\ r * P >= TotalRows
            /\ (r > 0 => (r - 1) * P < TotalRows)
            /\ (TotalRows = 0 => r = 0)
            /\ (TotalRows = 10 /\ P = 3 => r = 4)

C11_Witness ==
    /\ pg.state = "ready"
    /\ pg.table = 10
    /\ pg.size = <<3>>
    /\ Len(query.orders) > 0
    /\ pg.pages = <<4>>

\* C12: for every T, P >= 1 and zero-indexed page n, fetch_page(n) returns
\* exactly min(P, max(0, T - n * P)) rows: none, and no error, for every
\* n >= num_pages, at least one for every n < num_pages; and after fetch_page
\* calls in any order the wrapped query and the page size are as they were.
C12_FetchPage ==
    (pg.state # "none" /\ pg.fetched # <<>>) =>
        LET P == pg.size[1]
            n == pg.page[1]
            rows == pg.fetched[1]
        IN  /\ P >= 1
            /\ Len(rows) = Min(P, Max(0, TotalRows - n * P))
            /\ (n >= CeilDiv(TotalRows, P) =>
                   rows = <<>> /\ fault = "none" /\ pg.state = "ready")
            /\ (n < CeilDiv(TotalRows, P) => Len(rows) >= 1)
            /\ (TotalRows = 10 /\ P = 3 /\ n = 3 => Len(rows) = 1)
            /\ (TotalRows = 10 /\ P = 3 /\ n = 4 => Len(rows) = 0)
            /\ pg.paginator[1].query = query
            /\ pg.paginator[1].page_size = P

C12_Witness ==
    /\ pg.state = "ready"
    /\ pg.table = 10
    /\ pg.size = <<3>>
    /\ query.wherei = <<>>
    /\ pg.prev = <<4>>
    /\ pg.page = <<3>>
    /\ Len(pg.fetched[1]) = 1
    /\ pg.paginator[1].query = query

\* C13: pagination with page_size = 0 fails explicitly at the API boundary: it
\* never divides by zero and never returns a page count or a page, also when
\* the page size is the request's unvalidated posts_per_page parameter.
C13_ZeroPageSizeRejected ==
    (pg.state # "none" /\ pg.size = <<0>>) =>
        /\ pg.state = "panicked"
        /\ fault = "page_size is zero"
        /\ pg.paginator = <<>>
        /\ pg.pages = <<>>
        /\ pg.fetched = <<>>

C13_Witness ==
    /\ pg.state = "panicked"
    /\ pg.size = <<0>>
    /\ fault = "page_size is zero"
    /\ pg.pages = <<>>
    /\ pg.fetched = <<>>

(***************************************************************************)
(* Independent chains, under SpecPar.                                      *)
(***************************************************************************)
\* The statement a Select<E> holds when the calls cs are made on it alone
RECURSIVE Alone(_, _)
Alone(E, cs) ==
    IF Len(cs) = 0 THEN new(E)
    ELSE Apply(Alone(E, Front(cs)), E, Last(cs))

\* C14: the calls of two Selects on the same descriptors may be interleaved in
\* any order: each Select's statement is the one its own calls produce when
\* made alone; extending a clone leaves the original's statement unchanged.
C14_ChainsIndependent ==
    /\ query = Alone(entity, calls)
    /\ query.wherei = FilteredBy(calls)
    /\ query.orders = OrderedBy(calls)
    /\ query.from = <<table_name(entity)>>
    /\ twin.state = "live" =>
          /\ twin.query = Alone(twin.entity, twin.calls)
          /\ twin.query.wherei = FilteredBy(twin.calls)
          /\ twin.query.orders = OrderedBy(twin.calls)
          /\ twin.query.from = <<table_name(twin.entity)>>

C14_Witness ==
    /\ twin.state = "live"
    /\ twin.origin = "clone"
    /\ Len(calls) = 2
    /\ Len(twin.calls) = 2
    /\ calls[1] = twin.calls[1]
    /\ Ops(calls) = <<"filter", "order_by">>
    /\ Ops(twin.calls) = <<"filter", "select_only">>
    /\ Len(query.selects) = Len(Columns(entity))
    /\ twin.query.selects = <<>>
    /\ twin.query.orders = <<>>

(***************************************************************************)
(* Frame of the builder operations, under Spec.                            *)
(***************************************************************************)
Clauses ==
    {"selects", "from", "join", "wherei", "groups", "orders", "limit", "offset"}

\* The clause an operation is about (none for build and into_query)
OwnClause(op) ==
    CASE op \in {"filter", "belongs_to"} -> {"wherei"}
      [] op \in {"order_by", "order_by_desc"} -> {"orders"}
      [] op = "group_by" -> {"groups"}
      [] op \in {"column", "column_as", "select_only"} -> {"selects"}
      [] op \in JoinOps -> {"join"}
      [] op \in {"build", "into_query"} -> {}

\* A call leaves every clause but its own as it was
C15_Step ==
    Len(calls') = Len(calls) + 1 =>
        \A f \in Clauses \ OwnClause(Last(calls').op) : query'[f] = query[f]

\* FROM is the root entity's table; without select_only the projection is the
\* default columns followed by the added expressions
C15_State ==
    /\ query.from = <<table_name(entity)>>
    /\ SelectOnlyAt = {} =>
          /\ Len(query.selects) >= Len(Columns(entity))
          /\ \A i \in 1..Len(Columns(entity)) :
                query.selects[i] =
                    [expr |-> [op |-> "col", tbl |-> table_name(entity),
                               col |-> Columns(entity)[i], arg |-> <<>>],
                     alias |-> <<>>]
          /\ SubSeq(query.selects, Len(Columns(entity)) + 1, Len(query.selects))
                = AddedColumns(calls)

\* C15: each builder operation changes only its own clause (filter and
\* belongs_to WHERE, order_by / order_by_desc ORDER BY, group_by GROUP BY,
\* column / column_as / select_only the projection, the joins the JOIN list,
\* build nothing); so FROM stays the root entity's table, and column without a
\* prior select_only yields the default columns followed by the added
\* expression.
C15_FrameEffects == []C15_State /\ [][C15_Step]_vars

C15_Witness ==
    /\ entity = "cake::Entity"
    /\ Ops(calls) = <<"inner_join", "filter", "column">>
    /\ Len(query.join) = 1
    /\ Len(query.wherei) = 1
    /\ query.from = <<"cake">>
    /\ Len(query.selects) = Len(Columns(entity)) + 1
    /\ Last(query.selects) = [expr |-> calls[3].arg[1], alias |-> <<>>]

====
